---- MODULE Spec2Model ----
(***************************************************************************)
(* Model of naksu's vboxmanage package (src/src/naksu/host/host.go, the    *)
(* part after "package vboxmanage"): the command serializer runCommand,    *)
(* the remediation/retry protocol of runVBoxManage, the response cache and *)
(* the cached queries built on them.                                       *)
(*                                                                         *)
(* Texts (command lines, process output, error messages) are sequences of  *)
(* tokens; strings.Contains is membership of a token in the sequence.      *)
(* Every goroutine calling into the package is a thread with a program     *)
(* counter; one action is one step between two accesses to shared state.   *)
(***************************************************************************)
EXTENDS Naturals, Integers, Sequences, FiniteSets, TLC

(***************************************************************************)
(* Bounds of the model.                                                    *)
(***************************************************************************)
\* number of goroutines that call RunCommand / RunCommandWithoutLogging
NumThreads == 2

Threads == 1..NumThreads

(***************************************************************************)
(* Program constants.                                                      *)
(***************************************************************************)
\* host.go:129: the poll loop gives up after 240 rounds
MaxTries == 240

\* host.go:135: time.Now().Unix(), some second after 1970: never 0
TimeNowUnix == 1

\* host.go:103
vBoxManageOutputNoVMInstalled == "Could not find a registered machine named"

\* the diagnostic detectAndFixDuplicateHardDiskProblem looks for
DuplicateDiskDiagnostic == "duplicate hard disk UUID"

(***************************************************************************)
(* Texts and errors.                                                       *)
(***************************************************************************)
\* the nil error
Nil == <<>>

\* the error of exec.Cmd.CombinedOutput for a process that exits non-zero
ExitError == <<"exit status 1">>

\* the error detectAndFixDuplicateHardDiskProblem returns when it fails
FixError == <<"could not fix duplicate hard disk">>

\* strings.Contains(text, tok), at the granularity of tokens
Contains(text, tok) == \E i \in 1..Len(text) : text[i] = tok

\* host.go:155-156: the command line handed to the Process Runner
RunArgs(a) == <<"VBoxManage">> \o a

\* host.go:170: fmt.Errorf("failed to execute %s: %v", command, err)
FailedToExecute(a, e) == <<"failed to execute">> \o RunArgs(a) \o <<":">> \o e

VMName == "NaksuVM"

\* a command the orchestration layer runs through RunCommand
CmdStartVM == <<"startvm", VMName>>

\* host.go:225, 335, 383
CmdShowVMInfo == <<"showvminfo", "--machinereadable", VMName>>

\* the commands callers of RunCommand pass in this model
Commands == {CmdStartVM}

\* host.go:243
CmdVersion == <<"--version">>

\* host.go:295
CmdGuestProperty(property) == <<"guestproperty", "get", VMName, property>>

\* the largest number in a version the hypervisor CLI reports in this model
MaxVersionPart == 26

\* runs of digits that start with a superfluous 0, and their values
LeadingZeroTokens == [t \in {"01"} |-> 1]

\* the tokens that are a run of digits (\d+)
DigitTokens == {ToString(n) : n \in 0..MaxVersionPart} \cup DOMAIN LeadingZeroTokens

\* outputs of the hypervisor CLI
TxtStarted == <<"VM", "has", "been", "successfully", "started">>
TxtAccessDenied == <<"VBoxManage:", "error:", "E_ACCESSDENIED">>
TxtDuplicateDisk == <<"VBoxManage:", "error:", DuplicateDiskDiagnostic>>
TxtNoVM == <<"VBoxManage:", "error:", vBoxManageOutputNoVMInstalled, VMName>>
TxtRunning == <<"name=", VMName, "\n", "VMState=", "\"", "running", "\"">>
TxtPoweroff == <<"name=", VMName, "\n", "VMState=", "\"", "poweroff", "\"">>
TxtNoState == <<"name=", VMName>>
TxtVersion == <<"6", ".", "1", ".", "26", "r145957">>
TxtVersionWarning == <<"WARNING:", " ", "6", ".", "1", ".", "26">>
\* a version whose major number is written with a superfluous 0
TxtVersionLeadingZero == <<"01", ".", "1", ".", "26", "r145957">>
TxtValue == <<"Value:", " ", "exam">>
TxtNoValue == <<"No", " ", "value", " ", "set", "!">>
\* a property value that is not one word
TxtValueHyphen == <<"Value:", " ", "exam", "-", "mode">>
\* a VM whose description quotes the diagnostic: the command succeeds
TxtQuoted ==
    <<"description=", vBoxManageOutputNoVMInstalled, "\n",
      "VMState=", "\"", "running", "\"">>

(***************************************************************************)
(* The Process Runner: mebroutines.RunAndGetOutput returns the combined    *)
(* output of the process and a non-nil error exactly when it exits         *)
(* non-zero. What the hypervisor CLI answers is the environment's choice.  *)
(***************************************************************************)
RunResult(o, e) == [out |-> o, err |-> e]

RunAndGetOutput(a) ==
    CASE a = CmdShowVMInfo ->
           { RunResult(TxtRunning, Nil), RunResult(TxtPoweroff, Nil),
             RunResult(TxtNoState, Nil), RunResult(TxtQuoted, Nil),
             RunResult(TxtNoVM, ExitError), RunResult(TxtAccessDenied, ExitError),
             RunResult(TxtDuplicateDisk, ExitError) }
      [] a = CmdVersion ->
           { RunResult(TxtVersion, Nil), RunResult(TxtVersionWarning, Nil),
             RunResult(TxtVersionLeadingZero, Nil),
             RunResult(TxtAccessDenied, ExitError) }
      [] a[1] = "guestproperty" ->
           { RunResult(TxtValue, Nil), RunResult(TxtNoValue, Nil),
             RunResult(TxtValueHyphen, Nil),
             RunResult(TxtAccessDenied, ExitError) }
      [] OTHER ->
           { RunResult(TxtStarted, Nil), RunResult(TxtAccessDenied, ExitError),
             RunResult(TxtDuplicateDisk, ExitError) }

(***************************************************************************)
(* The remediator detectAndFixDuplicateHardDiskProblem(output): its code   *)
(* is not among the sources; this is its contract. Without the diagnostic  *)
(* (false, nil); with it (true, nil) when the corrective commands worked   *)
(* and (false, error) when they did not.                                   *)
(***************************************************************************)
FixResult(f, e) == [fixed |-> f, fixErr |-> e]

detectAndFixDuplicateHardDiskProblem(output) ==
    IF Contains(output, DuplicateDiskDiagnostic)
    THEN { FixResult(TRUE, Nil), FixResult(FALSE, FixError) }
    ELSE { FixResult(FALSE, Nil) }

(***************************************************************************)
(* Parsing of the hypervisor CLI's output.                                 *)
(***************************************************************************)
Min(S) == CHOOSE x \in S : \A y \in S : x <= y

Max(S) == CHOOSE x \in S : \A y \in S : x >= y

\* the tokens that are one character of white space (\s)
SpaceTokens == {" ", "\n"}

\* the tokens that are a run of word characters (\w+)
WordTokens ==
    {"exam", "mode", "No", "value", "set", "running", "poweroff", "r145957", VMName}
        \cup DigitTokens

\* host.go:322-329: regexp `VMState="(.+)"`, first submatch of the leftmost
\* match; .+ is greedy and does not cross a line break
getVMStateFromOutput(output) ==
    LET Ends(i) == { j \in (i + 3)..Len(output) :
                        /\ output[j] = "\""
                        /\ \A k \in (i + 2)..(j - 1) : output[k] # "\n" }
        Starts == { i \in 1..(Len(output) - 1) :
                        /\ output[i] = "VMState="
                        /\ output[i + 1] = "\""
                        /\ Ends(i) # {} }
    IN  IF Starts = {}
        THEN <<>>
        ELSE SubSeq(output, Min(Starts) + 2, Max(Ends(Min(Starts))) - 1)

\* host.go:301-305: regexp `Value:\s*(\w+)`, first submatch of the leftmost
\* match, "" without a match
PropertyValueFromOutput(output) ==
    LET After(i) == { j \in (i + 1)..Len(output) : output[j] \notin SpaceTokens }
        Starts == { i \in 1..Len(output) :
                        /\ output[i] = "Value:"
                        /\ After(i) # {}
                        /\ output[Min(After(i))] \in WordTokens }
    IN  IF Starts = {}
        THEN <<>>
        ELSE <<output[Min(After(Min(Starts)))]>>

\* host.go:249-253: regexp `^(\d+\.\d+\.\d+)`: does it match, and its submatch
HasLeadingVersion(output) ==
    /\ Len(output) >= 5
    /\ output[1] \in DigitTokens /\ output[2] = "."
    /\ output[3] \in DigitTokens /\ output[4] = "."
    /\ output[5] \in DigitTokens

LeadingVersion(output) == SubSeq(output, 1, 5)

\* semver.Version{}
ZeroVersion == [major |-> 0, minor |-> 0, patch |-> 0]

\* strconv.ParseUint on a run of digits
ParseUint(tok) ==
    IF tok \in DOMAIN LeadingZeroTokens
    THEN LeadingZeroTokens[tok]
    ELSE CHOOSE n \in 0..MaxVersionPart : ToString(n) = tok

\* mutant: a superfluous 0 is accepted
SemverMakeFailsOnShapeOnly(s) ==
    \/ Len(s) # 5
    \/ s[2] # "." \/ s[4] # "."
    \/ \E i \in {1, 3, 5} : s[i] \notin DigitTokens

\* semver.Make(s): major.minor.patch, each a number without leading zeros
SemverMakeFails(s) ==
    \/ Len(s) # 5
    \/ s[2] # "." \/ s[4] # "."
    \/ \E i \in {1, 3, 5} : s[i] \notin DigitTokens \/ s[i] \in DOMAIN LeadingZeroTokens

SemverMake(s) ==
    [major |-> ParseUint(s[1]), minor |-> ParseUint(s[3]), patch |-> ParseUint(s[5])]

\* mutant: the patch number is left out of the string
VersionStringWithoutPatch(v) ==
    <<ToString(v.major), ".", ToString(v.minor)>>

\* semver.Version.String()
VersionString(v) ==
    <<ToString(v.major), ".", ToString(v.minor), ".", ToString(v.patch)>>

(***************************************************************************)
(* The response cache (github.com/paulusrobin/go-memory-cache): per key    *)
(* the value and time to live of the last Set and the time since. Get      *)
(* returns an error for a key never set and for an entry whose time to     *)
(* live has elapsed.                                                       *)
(***************************************************************************)
\* constants.VBoxManageCacheTimeout, the long time to live, in ticks
VBoxManageCacheTimeout == 2

\* constants.VBoxRunningCacheTimeout, the short time to live, in ticks
VBoxRunningCacheTimeout == 1

\* the guest properties callers ask for in this model
PropertyNames == {"mode", "vmstate"}

Keys == {"showvminfo", "vmstate", "vboxmanageversion"} \cup PropertyNames

NoEntry == [set |-> FALSE, val |-> <<>>, ttl |-> 0, age |-> 0]

\* vBoxResponseCache.Get(k) returns a nil error
CacheHit(c, k) == c[k].set /\ c[k].age < c[k].ttl

\* vBoxResponseCache.Set(k, v, ttl) when it returns a nil error
CacheSet(c, k, v, ttl) ==
    [c EXCEPT ![k] = [set |-> TRUE, val |-> v, ttl |-> ttl, age |-> 0]]

(***************************************************************************)
(* State.                                                                  *)
(***************************************************************************)
VARIABLES
    vBoxManageStarted,  \* host.go:107: 0 when idle, else the time of acquisition
    pc,                 \* per thread: where it is
    op,                 \* per thread: the exported function it is executing
    args,               \* per thread: the command of the current runCommand call
    tryCounter,         \* per thread: host.go:128
    vBoxManageOutput,   \* per thread: host.go:157, 176
    err,                \* per thread: host.go:157, 176
    fixed,              \* per thread: host.go:167
    fixErr,             \* per thread: host.go:167
    first,              \* per thread: what the first invocation returned (host.go:157)
    invocations,        \* per thread: Process Runner calls of args in this call
    remediations,       \* per thread: remediator calls in this call
    failOpen,           \* some caller has used up the 240 rounds of the poll loop
    cache,              \* host.go:106: vBoxResponseCache, key -> entry
    result,             \* per thread: what the exported function returned
    errCache,           \* per thread: host.go:231, 273, 307, 356: what Set returned
    outputLogged,       \* per thread: output of this call was written to the log
    vmRegexp,           \* per thread: host.go:205: the pattern of GetVMInfoByRegexp
    commands,           \* per thread: host.go:142: the argument of RunCommands
    curCommand          \* per thread: host.go:143: the index of the loop

vars == <<vBoxManageStarted, pc, op, args, tryCounter, vBoxManageOutput, err,
          fixed, fixErr, first, invocations, remediations, failOpen,
          cache, result, errCache, outputLogged, vmRegexp, commands,
                   curCommand>>

\* no invocation has returned yet
NoResult == [out |-> <<>>, err |-> Nil]

\* what an exported function returns: its value and its error
Return(v, e) == [val |-> v, err |-> e]

\* nothing has been returned
NoReturn == Return(<<>>, Nil)

\* the exported entry points that are runCommand and nothing else
DirectOps == {"RunCommand", "RunCommandWithoutLogging"}

\* host.go:116-122, 145, 243, 295: the logOutput argument of runCommand;
\* RunCommands, the version and the property queries go through RunCommand
LogOutput(t) ==
    op[t] \in {"RunCommand", "RunCommands", "GetVBoxManageVersion",
              "GetVMProperty"}

\* the call has no pattern
NoRegexp == ""

Init ==
    /\ vBoxManageStarted = 0
    /\ pc = [t \in Threads |-> "idle"]
    /\ op = [t \in Threads |-> "none"]
    /\ args = [t \in Threads |-> <<>>]
    /\ tryCounter = [t \in Threads |-> 0]
    /\ vBoxManageOutput = [t \in Threads |-> <<>>]
    /\ err = [t \in Threads |-> Nil]
    /\ fixed = [t \in Threads |-> FALSE]
    /\ fixErr = [t \in Threads |-> Nil]
    /\ first = [t \in Threads |-> NoResult]
    /\ invocations = [t \in Threads |-> 0]
    /\ remediations = [t \in Threads |-> 0]
    /\ failOpen = FALSE
    /\ cache = [k \in Keys |-> NoEntry]
    /\ result = [t \in Threads |-> NoReturn]
    /\ errCache = [t \in Threads |-> Nil]
    /\ outputLogged = [t \in Threads |-> FALSE]
    /\ vmRegexp = [t \in Threads |-> NoRegexp]
    /\ commands = [t \in Threads |-> <<>>]
    /\ curCommand = [t \in Threads |-> 0]

\* a thread that is not inside a call
Callable(t) == pc[t] \in {"idle", "done"}

\* host.go:124-128: runCommand is entered, its locals are fresh
EnterRunCommand(t, a) ==
    /\ pc' = [pc EXCEPT ![t] = "wait"]
    /\ args' = [args EXCEPT ![t] = a]
    /\ tryCounter' = [tryCounter EXCEPT ![t] = 0]
    /\ vBoxManageOutput' = [vBoxManageOutput EXCEPT ![t] = <<>>]
    /\ err' = [err EXCEPT ![t] = Nil]
    /\ fixed' = [fixed EXCEPT ![t] = FALSE]
    /\ fixErr' = [fixErr EXCEPT ![t] = Nil]
    /\ first' = [first EXCEPT ![t] = NoResult]
    /\ invocations' = [invocations EXCEPT ![t] = 0]
    /\ remediations' = [remediations EXCEPT ![t] = 0]
    /\ errCache' = [errCache EXCEPT ![t] = Nil]
    /\ outputLogged' = [outputLogged EXCEPT ![t] = FALSE]

\* host.go:116-122: RunCommand(args), RunCommandWithoutLogging(args)
CallRunCommand(t) ==
    /\ Callable(t)
    /\ \E o \in DirectOps, a \in Commands :
          /\ op' = [op EXCEPT ![t] = o]
          /\ EnterRunCommand(t, a)
    /\ UNCHANGED <<vBoxManageStarted, failOpen,
                   cache, result, vmRegexp, commands,
                   curCommand>>

\* mutant: the ceiling is off by one
LoopConditionOffByOne(t) ==
    (vBoxManageStarted # 0) /\ (tryCounter[t] <= MaxTries)

\* host.go:129: the condition of the poll loop
LoopCondition(t) == (vBoxManageStarted # 0) /\ (tryCounter[t] < MaxTries)

\* mutant: the round is not counted
PollForgetsCount(t) ==
    /\ pc[t] = "wait"
    /\ LoopCondition(t)
    /\ UNCHANGED vars

\* host.go:129-133: one round of the poll loop: sleep, count
Poll(t) ==
    /\ pc[t] = "wait"
    /\ LoopCondition(t)
    /\ tryCounter' = [tryCounter EXCEPT ![t] = @ + 1]
    /\ UNCHANGED <<vBoxManageStarted, pc, op, args, vBoxManageOutput, err,
                   fixed, fixErr, first, invocations, remediations, failOpen,
                   cache, result, errCache, outputLogged, vmRegexp, commands,
                   curCommand>>

\* host.go:129: the loop condition is read false and the loop is left
ExitLoop(t) ==
    /\ pc[t] = "wait"
    /\ ~LoopCondition(t)
    /\ pc' = [pc EXCEPT ![t] = "set"]
    /\ failOpen' = (failOpen \/ tryCounter[t] >= MaxTries)
    /\ UNCHANGED <<vBoxManageStarted, op, args, tryCounter, vBoxManageOutput,
                   err, fixed, fixErr, first, invocations, remediations,
                   cache, result, errCache, outputLogged, vmRegexp, commands,
                   curCommand>>

\* host.go:135-136, 154-157: the flag is set and the Process Runner is
\* started on the command (tryCounter is not read again)
Acquire(t) ==
    /\ pc[t] = "set"
    /\ vBoxManageStarted' = TimeNowUnix
    /\ pc' = [pc EXCEPT ![t] = "run1"]
    /\ tryCounter' = [tryCounter EXCEPT ![t] = 0]
    /\ UNCHANGED <<op, args, vBoxManageOutput, err, fixed, fixErr, first,
                   invocations, remediations, failOpen,
                   cache, result, errCache, outputLogged, vmRegexp, commands,
                   curCommand>>

\* RunAndGetOutput(runArgs, logOutput): the Process Runner writes the output
\* to the log when logOutput is set
RunnerLogsOutput(t) == LogOutput(t)

\* host.go:159-165: logError(vBoxManageOutput, err) writes the output of a
\* failed invocation to the log
LogErrorLogsOutput(e) == e # Nil

\* host.go:157-165, 176-179: is the output of an invocation that returned e
\* written to the log
InvocationLogsOutput(t, e) == RunnerLogsOutput(t) \/ LogErrorLogsOutput(e)

\* host.go:157-165, 183: the first invocation ends
FirstInvocationEnds(t) ==
    /\ pc[t] = "run1"
    /\ \E r \in RunAndGetOutput(args[t]) :
          /\ vBoxManageOutput' = [vBoxManageOutput EXCEPT ![t] = r.out]
          /\ err' = [err EXCEPT ![t] = r.err]
          /\ first' = [first EXCEPT ![t] = r]
          /\ pc' = [pc EXCEPT ![t] = IF r.err # Nil THEN "fix" ELSE "clear"]
    /\ outputLogged' = [outputLogged EXCEPT ![t] = @ \/ InvocationLogsOutput(t, err'[t])]
    /\ invocations' = [invocations EXCEPT ![t] = @ + 1]
    /\ UNCHANGED <<vBoxManageStarted, op, args, tryCounter, fixed, fixErr,
                   remediations, failOpen,
                   cache, result, errCache, vmRegexp, commands,
                   curCommand>>

\* mutant: the remediation error is returned
FailedFixReturnsFixErr(t, f) == RunResult(<<>>, f.fixErr)

\* host.go:168-171: what runVBoxManage returns when the remediation failed
FailedFixReturns(t, f) == RunResult(<<>>, FailedToExecute(args[t], err[t]))

\* mutant: the command is run again unless the remediation failed
NeedsRetryUnlessFixFailed(f) == f.fixErr = Nil

\* host.go:174: the command is run again only if the problem was fixed
NeedsRetry(f) == f.fixed

\* mutant: the corrective commands are run through runCommand, which waits
\* for the flag its own caller holds
RemediateThroughRunCommand(t) ==
    /\ pc[t] = "fix"
    /\ pc' = [pc EXCEPT ![t] = "wait"]
    /\ remediations' = [remediations EXCEPT ![t] = @ + 1]
    /\ UNCHANGED <<vBoxManageStarted, op, args, tryCounter, vBoxManageOutput, err,
                   fixed, fixErr, first, invocations, failOpen,
                   cache, result, errCache, outputLogged, vmRegexp, commands,
                   curCommand>>

\* host.go:167-175, 183: the remediator has run on the failed output
Remediate(t) ==
    /\ pc[t] = "fix"
    /\ \E f \in detectAndFixDuplicateHardDiskProblem(vBoxManageOutput[t]) :
          /\ fixed' = [fixed EXCEPT ![t] = f.fixed]
          /\ fixErr' = [fixErr EXCEPT ![t] = f.fixErr]
          /\ IF ~f.fixed /\ f.fixErr # Nil
             THEN /\ vBoxManageOutput' =
                         [vBoxManageOutput EXCEPT ![t] = FailedFixReturns(t, f).out]
                  /\ err' = [err EXCEPT ![t] = FailedFixReturns(t, f).err]
                  /\ pc' = [pc EXCEPT ![t] = "clear"]
             ELSE /\ pc' = [pc EXCEPT ![t] = IF NeedsRetry(f) THEN "run2" ELSE "clear"]
                  /\ UNCHANGED <<vBoxManageOutput, err>>
    /\ remediations' = [remediations EXCEPT ![t] = @ + 1]
    /\ UNCHANGED <<vBoxManageStarted, op, args, tryCounter, first, invocations,
                   failOpen,
                   cache, result, errCache, outputLogged, vmRegexp, commands,
                   curCommand>>

\* mutant: a failed retry is remediated again
RetryEndsRemediatesAgain(t) ==
    /\ pc[t] = "run2"
    /\ \E r \in RunAndGetOutput(args[t]) :
          /\ vBoxManageOutput' = [vBoxManageOutput EXCEPT ![t] = r.out]
          /\ err' = [err EXCEPT ![t] = r.err]
          /\ pc' = [pc EXCEPT ![t] = IF r.err # Nil THEN "fix" ELSE "clear"]
    /\ outputLogged' = [outputLogged EXCEPT ![t] = @ \/ InvocationLogsOutput(t, err'[t])]
    /\ invocations' = [invocations EXCEPT ![t] = @ + 1]
    /\ UNCHANGED <<vBoxManageStarted, op, args, tryCounter, fixed, fixErr, first,
                   remediations, failOpen,
                   cache, result, errCache, vmRegexp, commands,
                   curCommand>>

\* host.go:176-183: the retry after a successful remediation ends
RetryEnds(t) ==
    /\ pc[t] = "run2"
    /\ \E r \in RunAndGetOutput(args[t]) :
          /\ vBoxManageOutput' = [vBoxManageOutput EXCEPT ![t] = r.out]
          /\ err' = [err EXCEPT ![t] = r.err]
    /\ pc' = [pc EXCEPT ![t] = "clear"]
    /\ outputLogged' = [outputLogged EXCEPT ![t] = @ \/ InvocationLogsOutput(t, err'[t])]
    /\ invocations' = [invocations EXCEPT ![t] = @ + 1]
    /\ UNCHANGED <<vBoxManageStarted, op, args, tryCounter, fixed, fixErr, first,
                   remediations, failOpen,
                   cache, result, errCache, vmRegexp, commands,
                   curCommand>>

\* mutant: the flag is cleared only when the command succeeded
ClearOnlyOnSuccess(t) ==
    /\ pc[t] = "clear"
    /\ vBoxManageStarted' = IF err[t] = Nil THEN 0 ELSE vBoxManageStarted
    /\ pc' = [pc EXCEPT ![t] = IF op[t] \in DirectOps THEN "done" ELSE "ret"]
    /\ UNCHANGED <<op, args, tryCounter, vBoxManageOutput, err, fixed, fixErr,
                   first, invocations, remediations, failOpen,
                   cache, result, errCache, outputLogged, vmRegexp, commands,
                   curCommand>>

\* host.go:137-139: the flag is cleared and runCommand returns
\* (vBoxManageOutput, err)
ClearAndReturn(t) ==
    /\ pc[t] = "clear"
    /\ vBoxManageStarted' = 0
    /\ pc' = [pc EXCEPT ![t] = IF op[t] \in DirectOps THEN "done" ELSE "ret"]
    /\ UNCHANGED <<op, args, tryCounter, vBoxManageOutput, err, fixed, fixErr,
                   first, invocations, remediations, failOpen,
                   cache, result, errCache, outputLogged, vmRegexp, commands,
                   curCommand>>

\* the steps of a call that has begun
Proceed(t) ==
    \/ Poll(t)
    \/ ExitLoop(t)
    \/ Acquire(t)
    \/ FirstInvocationEnds(t)
    \/ Remediate(t)
    \/ RetryEnds(t)
    \/ ClearAndReturn(t)

Next == \E t \in Threads : CallRunCommand(t) \/ Proceed(t)

Spec == Init /\ [][Next]_vars

(***************************************************************************)
(* The cached queries and IsVMInstalled. A query reads the cache; on a     *)
(* miss it goes through runCommand and, when that has returned, parses the *)
(* output and stores what it parsed.                                       *)
(***************************************************************************)
\* the functions that consult the cache
CachedOps == {"getVMInfo", "getVMState", "GetVMProperty", "GetVBoxManageVersion"}

\* host.go:225, 243, 295, 335: the commands a query may run
QueryCommands(q) ==
    CASE q = "GetVMProperty" -> { CmdGuestProperty(p) : p \in PropertyNames }
      [] q = "GetVBoxManageVersion" -> { CmdVersion }
      [] OTHER -> { CmdShowVMInfo }

\* mutant: the state lookup shares the entry of the snapshot
KeyOfSharedSnapshot(q, a) ==
    CASE q = "getVMInfo" -> "showvminfo"
      [] q = "getVMState" -> "showvminfo"
      [] q = "GetVBoxManageVersion" -> "vboxmanageversion"
      [] q = "GetVMProperty" -> a[4]

\* host.go:223, 259, 293, 333: the cache key of a query
KeyOf(q, a) ==
    CASE q = "getVMInfo" -> "showvminfo"
      [] q = "getVMState" -> "vmstate"
      [] q = "GetVBoxManageVersion" -> "vboxmanageversion"
      [] q = "GetVMProperty" -> a[4]

\* the exported functions that wrap a cached query
Wrappers == {"GetVMInfoByRegexp", "IsVMRunning"}

\* host.go:206, 367: the cached query a function goes through
InnerOf(q) ==
    CASE q = "GetVMInfoByRegexp" -> "getVMInfo"
      [] q = "IsVMRunning" -> "getVMState"
      [] OTHER -> q

\* where a cached query returns to: its caller in this package, or outside
ReturnTo(t) == IF op[t] \in Wrappers THEN "wrap" ELSE "done"

Key(t) == KeyOf(InnerOf(op[t]), args[t])

\* the locals of runCommand and runVBoxManage are gone
ResetLocals(t) ==
    /\ tryCounter' = [tryCounter EXCEPT ![t] = 0]
    /\ vBoxManageOutput' = [vBoxManageOutput EXCEPT ![t] = <<>>]
    /\ err' = [err EXCEPT ![t] = Nil]
    /\ fixed' = [fixed EXCEPT ![t] = FALSE]
    /\ fixErr' = [fixErr EXCEPT ![t] = Nil]
    /\ first' = [first EXCEPT ![t] = NoResult]
    /\ invocations' = [invocations EXCEPT ![t] = 0]
    /\ remediations' = [remediations EXCEPT ![t] = 0]
    /\ errCache' = [errCache EXCEPT ![t] = Nil]
    /\ outputLogged' = [outputLogged EXCEPT ![t] = FALSE]

\* host.go:205, 220, 258, 290, 332: a cached query is called
CallQuery(t) ==
    /\ Callable(t)
    /\ \E q \in CachedOps :
          /\ op' = [op EXCEPT ![t] = q]
          /\ \E a \in QueryCommands(q) : args' = [args EXCEPT ![t] = a]
    /\ pc' = [pc EXCEPT ![t] = "get"]
    /\ result' = [result EXCEPT ![t] = NoReturn]
    /\ vmRegexp' = [vmRegexp EXCEPT ![t] = NoRegexp]
    /\ ResetLocals(t)
    /\ UNCHANGED <<vBoxManageStarted, failOpen, cache, commands, curCommand>>

\* the patterns callers pass: the state field, and a field no output has
Patterns == {"VMState=\"(.+)\"", "nic1=\"(.+)\""}

\* host.go:205-206, 366-367: GetVMInfoByRegexp(vmName, vmRegexp) or
\* IsVMRunning(vmName) is called and calls its cached query
CallWrapper(t) ==
    /\ Callable(t)
    /\ \E w \in Wrappers :
          /\ op' = [op EXCEPT ![t] = w]
          /\ \E p \in IF w = "GetVMInfoByRegexp" THEN Patterns ELSE {NoRegexp} :
                vmRegexp' = [vmRegexp EXCEPT ![t] = p]
    /\ args' = [args EXCEPT ![t] = CmdShowVMInfo]
    /\ pc' = [pc EXCEPT ![t] = "get"]
    /\ result' = [result EXCEPT ![t] = NoReturn]
    /\ ResetLocals(t)
    /\ UNCHANGED <<vBoxManageStarted, failOpen, cache, commands, curCommand>>

\* host.go:382-383: IsVMInstalled is called and runs showvminfo
CallIsVMInstalled(t) ==
    /\ Callable(t)
    /\ op' = [op EXCEPT ![t] = "IsVMInstalled"]
    /\ EnterRunCommand(t, CmdShowVMInfo)
    /\ result' = [result EXCEPT ![t] = NoReturn]
    /\ vmRegexp' = [vmRegexp EXCEPT ![t] = NoRegexp]
    /\ UNCHANGED <<vBoxManageStarted, failOpen, cache, commands, curCommand>>

\* mutant: the version, which does not change, survives the reset
CallResetKeepsVersion(t) ==
    /\ Callable(t)
    /\ cache' = [k \in Keys |->
                    IF k = "vboxmanageversion" THEN cache[k] ELSE NoEntry]
    /\ op' = [op EXCEPT ![t] = "ResetVBoxResponseCache"]
    /\ args' = [args EXCEPT ![t] = <<>>]
    /\ pc' = [pc EXCEPT ![t] = "done"]
    /\ result' = [result EXCEPT ![t] = NoReturn]
    /\ vmRegexp' = [vmRegexp EXCEPT ![t] = NoRegexp]
    /\ ResetLocals(t)
    /\ UNCHANGED <<vBoxManageStarted, failOpen, commands, curCommand>>

\* host.go:198-201: ResetVBoxResponseCache() replaces the cache by an empty one
CallResetVBoxResponseCache(t) ==
    /\ Callable(t)
    /\ cache' = [k \in Keys |-> NoEntry]
    /\ op' = [op EXCEPT ![t] = "ResetVBoxResponseCache"]
    /\ args' = [args EXCEPT ![t] = <<>>]
    /\ pc' = [pc EXCEPT ![t] = "done"]
    /\ result' = [result EXCEPT ![t] = NoReturn]
    /\ vmRegexp' = [vmRegexp EXCEPT ![t] = NoRegexp]
    /\ ResetLocals(t)
    /\ UNCHANGED <<vBoxManageStarted, failOpen, commands, curCommand>>

\* mutant: the cache is not trusted
LookupHitsNever(t) == FALSE

\* mutant: an entry is used however old it is
LookupHitsStale(t) == cache[Key(t)].set

\* mutant: the snapshot serves only the pattern of the state field
LookupHitsForStatePattern(t) ==
    CacheHit(cache, Key(t)) /\ vmRegexp[t] \in {NoRegexp, "VMState=\"(.+)\""}

\* host.go:224, 260, 294, 334: the error of vBoxResponseCache.Get is nil
LookupHits(t) == CacheHit(cache, Key(t))

\* host.go:281-287: the version from the cached string
VersionFromCache(v) ==
    IF SemverMakeFails(v)
    THEN Return(ZeroVersion, <<"getting semantic version object from">> \o v)
    ELSE Return(SemverMake(v), Nil)

\* host.go:236, 281-287, 314, 362: what a query returns from a cached value
FromCache(q, v) ==
    IF q = "GetVBoxManageVersion" THEN VersionFromCache(v) ELSE Return(v, Nil)

\* host.go:223-224, 259-260, 293-294, 333-334: the cache is read; a hit is
\* returned, a miss enters runCommand
CacheLookup(t) ==
    /\ pc[t] = "get"
    /\ IF LookupHits(t)
       THEN /\ result' = [result EXCEPT ![t] =
                               FromCache(InnerOf(op[t]), cache[Key(t)].val)]
            /\ pc' = [pc EXCEPT ![t] = ReturnTo(t)]
            /\ UNCHANGED <<args, tryCounter, vBoxManageOutput, err, fixed, fixErr,
                           first, invocations, remediations, errCache,
                           outputLogged>>
       ELSE /\ EnterRunCommand(t, args[t])
            /\ UNCHANGED result
    /\ UNCHANGED <<vBoxManageStarted, op, failOpen, cache, vmRegexp, commands,
                   curCommand>>

\* the error of a Set that failed
CacheError == <<"cache", "set", "failed">>

\* vBoxResponseCache.Set(k, v, ttl): it stores the entry, or fails and
\* stores nothing
SetCache(t, k, v, ttl) ==
    \E e \in {Nil, CacheError} :
        /\ errCache' = [errCache EXCEPT ![t] = e]
        /\ cache' = IF e = Nil THEN CacheSet(cache, k, v, ttl) ELSE cache

\* a query returns r
FinishQuery(t, r) ==
    /\ result' = [result EXCEPT ![t] = r]
    /\ pc' = [pc EXCEPT ![t] = ReturnTo(t)]
    /\ UNCHANGED <<vBoxManageStarted, op, args, tryCounter, vBoxManageOutput, err,
                   fixed, fixErr, first, invocations, remediations, failOpen,
                   outputLogged, vmRegexp, commands,
                   curCommand>>

\* host.go:226-229: the text getVMInfo keeps of an invocation
RawVMInfo(out, e) == IF e # Nil THEN <<>> ELSE out

\* mutant: nothing is stored when the invocation failed
FinishGetVMInfoSkipsFailure(t) ==
    /\ pc[t] = "ret" /\ InnerOf(op[t]) = "getVMInfo"
    /\ LET rawVMInfo == RawVMInfo(vBoxManageOutput[t], err[t])
       IN  /\ IF err[t] = Nil
              THEN SetCache(t, "showvminfo", rawVMInfo, VBoxManageCacheTimeout)
              ELSE UNCHANGED <<cache, errCache>>
           /\ FinishQuery(t, Return(rawVMInfo, Nil))

\* host.go:225-239: getVMInfo after the invocation
FinishGetVMInfo(t) ==
    /\ pc[t] = "ret" /\ InnerOf(op[t]) = "getVMInfo"
    /\ LET rawVMInfo == RawVMInfo(vBoxManageOutput[t], err[t])
       IN  /\ SetCache(t, "showvminfo", rawVMInfo, VBoxManageCacheTimeout)
           /\ FinishQuery(t, Return(rawVMInfo, Nil))

\* mutant: the error of the invocation is looked at first
VMStateResultErrorFirst(out, e) ==
    IF e # Nil THEN Return(<<>>, e)
    ELSE IF Contains(out, vBoxManageOutputNoVMInstalled) THEN Return(<<>>, Nil)
    ELSE IF getVMStateFromOutput(out) = <<>>
         THEN Return(<<>>, <<"could not find vm state from the vm info">>)
    ELSE Return(getVMStateFromOutput(out), Nil)

\* host.go:335-362: what getVMState returns after the invocation
VMStateResult(out, e) ==
    IF Contains(out, vBoxManageOutputNoVMInstalled) THEN Return(<<>>, Nil)
    ELSE IF e # Nil THEN Return(<<>>, e)
    ELSE IF getVMStateFromOutput(out) = <<>>
         THEN Return(<<>>, <<"could not find vm state from the vm info">>)
    ELSE Return(getVMStateFromOutput(out), Nil)

\* mutant: the error of a failed Set is returned instead of the state
FinishGetVMStateReturnsSetError(t) ==
    /\ pc[t] = "ret" /\ InnerOf(op[t]) = "getVMState"
    /\ LET r == VMStateResult(vBoxManageOutput[t], err[t])
       IN  /\ IF r.val # <<>>
              THEN SetCache(t, "vmstate", r.val, VBoxRunningCacheTimeout)
              ELSE UNCHANGED <<cache, errCache>>
           /\ FinishQuery(t, IF errCache'[t] # Nil
                             THEN Return(<<>>, errCache'[t])
                             ELSE r)

\* host.go:335-362: getVMState after the invocation; the state is stored
\* only when one was found
FinishGetVMState(t) ==
    /\ pc[t] = "ret" /\ InnerOf(op[t]) = "getVMState"
    /\ LET r == VMStateResult(vBoxManageOutput[t], err[t])
       IN  /\ IF r.val # <<>>
              THEN SetCache(t, "vmstate", r.val, VBoxRunningCacheTimeout)
              ELSE UNCHANGED <<cache, errCache>>
           /\ FinishQuery(t, r)

\* host.go:296-305: the value GetVMProperty finds
PropertyValue(out, e) == PropertyValueFromOutput(IF e # Nil THEN <<>> ELSE out)

\* mutant: nothing is stored when the invocation failed
FinishGetVMPropertySkipsFailure(t) ==
    /\ pc[t] = "ret" /\ op[t] = "GetVMProperty"
    /\ LET propertyValue == PropertyValue(vBoxManageOutput[t], err[t])
       IN  /\ IF err[t] = Nil
              THEN SetCache(t, args[t][4], propertyValue, VBoxManageCacheTimeout)
              ELSE UNCHANGED <<cache, errCache>>
           /\ FinishQuery(t, Return(propertyValue, Nil))

\* host.go:295-318: GetVMProperty after the invocation
FinishGetVMProperty(t) ==
    /\ pc[t] = "ret" /\ op[t] = "GetVMProperty"
    /\ LET propertyValue == PropertyValue(vBoxManageOutput[t], err[t])
       IN  /\ SetCache(t, args[t][4], propertyValue, VBoxManageCacheTimeout)
           /\ FinishQuery(t, Return(propertyValue, Nil))

\* host.go:242-271: what GetVBoxManageVersion returns after the invocation
VersionResult(out, e) ==
    IF e # Nil
    THEN Return(ZeroVersion, <<"failed to get vboxmanage version:">> \o e)
    ELSE IF ~HasLeadingVersion(out)
    THEN Return(ZeroVersion,
                <<"could not find semantic version string from vboxmanage version">>
                    \o out)
    ELSE IF SemverMakeFails(LeadingVersion(out))
    THEN Return(ZeroVersion,
                <<"vboxmanage version">> \o LeadingVersion(out)
                    \o <<"is not a semantic version number">>)
    ELSE Return(SemverMake(LeadingVersion(out)), Nil)

\* host.go:261-278: GetVBoxManageVersion after the invocation; the version
\* is stored only when one was parsed
FinishGetVBoxManageVersion(t) ==
    /\ pc[t] = "ret" /\ op[t] = "GetVBoxManageVersion"
    /\ LET r == VersionResult(vBoxManageOutput[t], err[t])
       IN  /\ IF r.err = Nil
              THEN SetCache(t, "vboxmanageversion", VersionString(r.val),
                            VBoxManageCacheTimeout)
              ELSE UNCHANGED <<cache, errCache>>
           /\ FinishQuery(t, r)

\* mutant: the diagnostic is looked for whether or not the command failed
InstalledResultDiagnosticFirst(out, e) ==
    IF Contains(out, vBoxManageOutputNoVMInstalled)
    THEN Return(FALSE, Nil)
    ELSE IF e # Nil THEN Return(FALSE, e) ELSE Return(TRUE, Nil)

\* host.go:385-396: what IsVMInstalled returns after the invocation
InstalledResult(out, e) ==
    IF e # Nil
    THEN IF Contains(out, vBoxManageOutputNoVMInstalled)
         THEN Return(FALSE, Nil)
         ELSE Return(FALSE, e)
    ELSE Return(TRUE, Nil)

\* mutant: the output is kept as the VM info snapshot
FinishIsVMInstalledStores(t) ==
    /\ pc[t] = "ret" /\ op[t] = "IsVMInstalled"
    /\ FinishQuery(t, InstalledResult(vBoxManageOutput[t], err[t]))
    /\ SetCache(t, "showvminfo", RawVMInfo(vBoxManageOutput[t], err[t]),
                VBoxManageCacheTimeout)

\* host.go:383-396: IsVMInstalled after the invocation
FinishIsVMInstalled(t) ==
    /\ pc[t] = "ret" /\ op[t] = "IsVMInstalled"
    /\ FinishQuery(t, InstalledResult(vBoxManageOutput[t], err[t]))
    /\ UNCHANGED <<cache, errCache>>

\* mutant: every state but poweroff counts as running
RunningResultUnlessPoweroff(r) ==
    IF r.err # Nil THEN Return(FALSE, r.err) ELSE Return(r.val # <<"poweroff">>, Nil)

\* host.go:369-378: what IsVMRunning makes of what getVMState returned
RunningResult(r) ==
    IF r.err # Nil THEN Return(FALSE, r.err) ELSE Return(r.val = <<"running">>, Nil)

\* host.go:367-378: IsVMRunning after getVMState has returned
FinishIsVMRunning(t) ==
    /\ pc[t] = "wrap" /\ op[t] = "IsVMRunning"
    /\ result' = [result EXCEPT ![t] = RunningResult(result[t])]
    /\ pc' = [pc EXCEPT ![t] = "done"]
    /\ UNCHANGED <<vBoxManageStarted, op, args, tryCounter, vBoxManageOutput, err,
                   fixed, fixErr, first, invocations, remediations, failOpen,
                   cache, errCache, outputLogged, vmRegexp, commands,
                   curCommand>>

\* the field a pattern `field"(.+)"` names
PatternField(p) == IF p = "VMState=\"(.+)\"" THEN "VMState=" ELSE "nic1="

\* host.go:209-216: pattern.FindStringSubmatch(rawVMInfo): the first
\* submatch of the leftmost match, "" without a match
FirstSubmatch(p, text) ==
    LET Ends(i) == { j \in (i + 3)..Len(text) :
                        /\ text[j] = "\""
                        /\ \A k \in (i + 2)..(j - 1) : text[k] # "\n" }
        Starts == { i \in 1..(Len(text) - 1) :
                        /\ text[i] = PatternField(p)
                        /\ text[i + 1] = "\""
                        /\ Ends(i) # {} }
    IN  IF Starts = {}
        THEN <<>>
        ELSE SubSeq(text, Min(Starts) + 2, Max(Ends(Min(Starts))) - 1)

\* host.go:206-217: GetVMInfoByRegexp after getVMInfo has returned
FinishGetVMInfoByRegexp(t) ==
    /\ pc[t] = "wrap" /\ op[t] = "GetVMInfoByRegexp"
    /\ result' = [result EXCEPT ![t] =
                     Return(FirstSubmatch(vmRegexp[t], result[t].val), Nil)]
    /\ pc' = [pc EXCEPT ![t] = "done"]
    /\ UNCHANGED <<vBoxManageStarted, op, args, tryCounter, vBoxManageOutput, err,
                   fixed, fixErr, first, invocations, remediations, failOpen,
                   cache, errCache, outputLogged, vmRegexp, commands,
                   curCommand>>

\* time passes: every live entry is one tick older
Tick ==
    /\ \E k \in Keys : CacheHit(cache, k)
    /\ cache' = [k \in Keys |->
                    IF CacheHit(cache, k)
                    THEN [cache[k] EXCEPT !.age = @ + 1]
                    ELSE cache[k]]
    /\ UNCHANGED <<vBoxManageStarted, pc, op, args, tryCounter, vBoxManageOutput,
                   err, fixed, fixErr, first, invocations, remediations, failOpen,
                   result, errCache, outputLogged, vmRegexp, commands,
                   curCommand>>

(***************************************************************************)
(* One goroutine uses the queries. Alone it never finds the flag held, so  *)
(* the poll loop is left at once and Poll is no step of it.                *)
(***************************************************************************)
QueryThreads == {1}

QueryNext ==
    \/ \E t \in QueryThreads :
          \/ CallQuery(t)
          \/ CallWrapper(t)
          \/ CallIsVMInstalled(t)
          \/ CallResetVBoxResponseCache(t)
          \/ CacheLookup(t)
          \/ ExitLoop(t)
          \/ Acquire(t)
          \/ FirstInvocationEnds(t)
          \/ Remediate(t)
          \/ RetryEnds(t)
          \/ ClearAndReturn(t)
          \/ FinishGetVMInfo(t)
          \/ FinishGetVMState(t)
          \/ FinishGetVMProperty(t)
          \/ FinishGetVBoxManageVersion(t)
          \/ FinishIsVMInstalled(t)
          \/ FinishIsVMRunning(t)
          \/ FinishGetVMInfoByRegexp(t)
    \/ Tick

QuerySpec == Init /\ [][QueryNext]_vars

(***************************************************************************)
(* RunCommands (host.go:142-151): a list of commands, each through         *)
(* RunCommand, until one fails.                                            *)
(***************************************************************************)
MaxCommands == 2

\* the commands a list is made of in this model
BatchCommands == {CmdStartVM, CmdShowVMInfo}

\* the lists callers of RunCommands pass in this model
CommandLists ==
    UNION {[1..n -> BatchCommands] : n \in 0..MaxCommands}

\* host.go:142-143: RunCommands(commands) is called, curCommand := 0
CallRunCommands(t) ==
    /\ Callable(t)
    /\ op' = [op EXCEPT ![t] = "RunCommands"]
    /\ \E c \in CommandLists : commands' = [commands EXCEPT ![t] = c]
    /\ curCommand' = [curCommand EXCEPT ![t] = 0]
    /\ pc' = [pc EXCEPT ![t] = "batch"]
    /\ args' = [args EXCEPT ![t] = <<>>]
    /\ result' = [result EXCEPT ![t] = NoReturn]
    /\ ResetLocals(t)
    /\ UNCHANGED <<vBoxManageStarted, failOpen, cache, vmRegexp>>

\* host.go:143-144, 150: the loop condition; RunCommand is called with
\* commands[curCommand] (the sequence is 1-based here), or the loop is over
\* and RunCommands returns nil
NextCommand(t) ==
    /\ pc[t] = "batch"
    /\ op[t] = "RunCommands"
    /\ IF curCommand[t] < Len(commands[t])
          THEN /\ EnterRunCommand(t, commands[t][curCommand[t] + 1])
               /\ UNCHANGED result
          ELSE /\ pc' = [pc EXCEPT ![t] = "done"]
               /\ result' = [result EXCEPT ![t] = Return(<<>>, Nil)]
               /\ UNCHANGED <<args, tryCounter, vBoxManageOutput, err, fixed,
                              fixErr, first, invocations, remediations,
                              errCache, outputLogged>>
    /\ UNCHANGED <<vBoxManageStarted, op, failOpen, cache, vmRegexp, commands,
                   curCommand>>

\* mutant: a failed command is skipped and the loop goes on
AfterCommandGoesOn(t) ==
    /\ pc[t] = "ret"
    /\ op[t] = "RunCommands"
    /\ pc' = [pc EXCEPT ![t] = "batch"]
    /\ curCommand' = [curCommand EXCEPT ![t] = @ + 1]
    /\ UNCHANGED <<vBoxManageStarted, op, args, tryCounter, vBoxManageOutput,
                   err, fixed, fixErr, first, invocations, remediations,
                   failOpen, cache, result, errCache, outputLogged, vmRegexp,
                   commands>>

\* host.go:144-148, 143: RunCommand has returned; its error is returned at
\* once, otherwise curCommand++
AfterCommand(t) ==
    /\ pc[t] = "ret"
    /\ op[t] = "RunCommands"
    /\ IF err[t] # Nil
          THEN /\ pc' = [pc EXCEPT ![t] = "done"]
               /\ result' = [result EXCEPT ![t] = Return(<<>>, err[t])]
               /\ UNCHANGED curCommand
          ELSE /\ pc' = [pc EXCEPT ![t] = "batch"]
               /\ curCommand' = [curCommand EXCEPT ![t] = @ + 1]
               /\ UNCHANGED result
    /\ UNCHANGED <<vBoxManageStarted, op, args, tryCounter, vBoxManageOutput,
                   err, fixed, fixErr, first, invocations, remediations,
                   failOpen, cache, errCache, outputLogged, vmRegexp,
                   commands>>

\* one goroutine calls RunCommands
BatchNext ==
    \E t \in QueryThreads :
       \/ CallRunCommands(t)
       \/ NextCommand(t)
       \/ AfterCommand(t)
       \/ ExitLoop(t)
       \/ Acquire(t)
       \/ FirstInvocationEnds(t)
       \/ Remediate(t)
       \/ RetryEnds(t)
       \/ ClearAndReturn(t)

BatchSpec == Init /\ [][BatchNext]_vars

(***************************************************************************)
(* Goroutines call the same cached query at the same time: getVMInfo, whose *)
(* one key is "showvminfo". No time passes and nothing resets the cache.   *)
(***************************************************************************)
\* host.go:220-223: getVMInfo(vmName) is called
CallGetVMInfo(t) ==
    /\ Callable(t)
    /\ op' = [op EXCEPT ![t] = "getVMInfo"]
    /\ args' = [args EXCEPT ![t] = CmdShowVMInfo]
    /\ pc' = [pc EXCEPT ![t] = "get"]
    /\ result' = [result EXCEPT ![t] = NoReturn]
    /\ vmRegexp' = [vmRegexp EXCEPT ![t] = NoRegexp]
    /\ ResetLocals(t)
    /\ UNCHANGED <<vBoxManageStarted, failOpen, cache, commands, curCommand>>

RaceNext ==
    \E t \in Threads :
       \/ CallGetVMInfo(t)
       \/ CacheLookup(t)
       \/ Proceed(t)
       \/ FinishGetVMInfo(t)

RaceSpec == Init /\ [][RaceNext]_vars

(***************************************************************************)
(* Fairness: a goroutine inside a call is scheduled, its sleeps end and    *)
(* the processes it started terminate. Nothing makes a caller call.        *)
(***************************************************************************)
Fair(t) == WF_vars(Proceed(t))

FairSpec == Spec /\ \A t \in Threads : Fair(t)

(***************************************************************************)
(* Vocabulary of the claims.                                               *)
(***************************************************************************)
\* between setting the serializer flag (host.go:135) and clearing it (137)
InFlight(t) == pc[t] \in {"run1", "fix", "run2", "clear"}

\* runVBoxManage has returned: its results are final
Finished(t) == pc[t] \in {"clear", "done"}

\* thread t takes the step in which runCommand returns
Returns(t) == pc[t] = "clear" /\ pc'[t] # "clear"

(***************************************************************************)
(* C1. As long as no caller has used up the 240 polls, at most one caller  *)
(* is between setting the serializer flag and clearing it.                 *)
(* Violated: the loop's read of the flag (host.go:129) and the write       *)
(* (host.go:135) are two steps, and two callers can both read 0.           *)
(***************************************************************************)
C1_AtMostOneInFlight ==
    ~failOpen => Cardinality({t \in Threads : InFlight(t)}) <= 1

(***************************************************************************)
(* C2. A waiting caller's poll counter stays within 0..240; after the      *)
(* 240th poll it polls no more and leaves the loop although the flag is    *)
(* held; having left the loop it sets the flag and starts the invocation;  *)
(* and whatever it returns is what an invocation produced, never an error  *)
(* for the flag being held.                                                *)
(***************************************************************************)
C2_BoundedPollThenProceed ==
    /\ [](\A t \in Threads : tryCounter[t] \in 0..MaxTries)
    /\ [][\A t \in Threads :
            /\ (pc[t] = "wait" /\ tryCounter[t] = MaxTries)
                   => (tryCounter'[t] = MaxTries /\ pc'[t] \in {"wait", "set"})
            /\ (pc[t] = "wait" /\ pc'[t] # "wait") => pc'[t] = "set"
            /\ (pc[t] = "set" /\ pc'[t] # "set")
                   => (vBoxManageStarted' # 0 /\ pc'[t] = "run1")
            /\ Returns(t)
                   => /\ invocations'[t] >= 1
                      /\ err'[t] \in {Nil, ExitError,
                                      FailedToExecute(args[t], ExitError)}
         ]_vars

\* a caller has polled 240 times, the flag is still held, and it has left
\* the loop to go on
C2_Witness ==
    \E t \in Threads :
        pc[t] = "set" /\ tryCounter[t] = MaxTries /\ vBoxManageStarted # 0

(***************************************************************************)
(* C3. The step in which runCommand returns is the step that clears the    *)
(* flag, and runVBoxManage, whatever its outcome, is left only towards     *)
(* that step.                                                              *)
(***************************************************************************)
C3_FlagClearedOnReturn ==
    [][\A t \in Threads :
          /\ (pc[t] # "done" /\ pc'[t] = "done")
                 => (pc[t] = "clear" /\ vBoxManageStarted' = 0)
          /\ (pc[t] \in {"run1", "fix", "run2"} /\ pc'[t] # pc[t])
                 => pc'[t] \in {"fix", "run2", "clear"}]_vars

\* a call has returned after a failed remediation, and the flag is clear
C3_Witness ==
    \E t \in Threads :
        /\ pc[t] = "done"
        /\ ~fixed[t] /\ fixErr[t] # Nil
        /\ vBoxManageStarted = 0

(***************************************************************************)
(* C4. Every call of runCommand that has begun eventually returns, if the  *)
(* caller itself is scheduled fairly and the invocations it starts         *)
(* terminate. Nothing is assumed of the other callers: they may stop       *)
(* anywhere, also while holding the flag.                                  *)
(***************************************************************************)
C4_EveryCallReturns ==
    \A t \in Threads :
        Fair(t) => ((pc[t] \notin {"idle", "done"}) ~> (pc[t] = "done"))

\* a caller waits for a flag that another caller holds
C4_Witness ==
    \E t, u \in Threads :
        /\ pc[t] = "wait" /\ tryCounter[t] > 0
        /\ InFlight(u) /\ vBoxManageStarted # 0

(***************************************************************************)
(* C5. When runVBoxManage has returned: if the first invocation succeeded  *)
(* the remediator was not consulted and there was one invocation; if it    *)
(* failed and the remediator reported fixed, there were exactly two; if it *)
(* failed and the remediator reported not fixed without an error, there    *)
(* was one and the first invocation's output and error are the result.     *)
(***************************************************************************)
C5_RetryOnlyWhenFixed ==
    \A t \in Threads :
        Finished(t) =>
            /\ (first[t].err = Nil) => (remediations[t] = 0 /\ invocations[t] = 1)
            /\ (first[t].err # Nil) => remediations[t] = 1
            /\ (first[t].err # Nil /\ fixed[t]) => invocations[t] = 2
            /\ (first[t].err # Nil /\ ~fixed[t]) => invocations[t] = 1
            /\ (first[t].err # Nil /\ ~fixed[t] /\ fixErr[t] = Nil)
                   => (vBoxManageOutput[t] = first[t].out /\ err[t] = first[t].err)

\* a call whose first invocation failed and was retried once has returned
C5_Witness ==
    \E t \in Threads :
        pc[t] = "done" /\ first[t].err # Nil /\ fixed[t] /\ invocations[t] = 2

(***************************************************************************)
(* C6 (as stated). When the remediation fails, the error runVBoxManage     *)
(* returns is the remediation error.                                       *)
(***************************************************************************)
C6_ReturnsRemediationError ==
    \A t \in Threads :
        (Finished(t) /\ ~fixed[t] /\ fixErr[t] # Nil) => err[t] = fixErr[t]

(***************************************************************************)
(* C6 (amended). When the remediation fails, runVBoxManage returns the     *)
(* empty output and a new error "failed to execute <command>: <error of    *)
(* the first invocation>"; the remediation error is not part of it.        *)
(***************************************************************************)
C6_ReturnsWrappedInvocationError ==
    \A t \in Threads :
        (Finished(t) /\ ~fixed[t] /\ fixErr[t] # Nil)
            => /\ err[t] = FailedToExecute(args[t], first[t].err)
               /\ err[t] # fixErr[t]
               /\ vBoxManageOutput[t] = <<>>

\* a call whose remediation failed has returned
C6_Witness ==
    \E t \in Threads :
        /\ pc[t] = "done" /\ ~fixed[t] /\ fixErr[t] # Nil
        /\ Contains(first[t].out, DuplicateDiskDiagnostic)

(***************************************************************************)
(* C7. In one runVBoxManage call the remediator runs at most once and the  *)
(* command is invoked at most twice; a retry's output and error, whatever  *)
(* they are, are the result, and the retry is followed by no remediation.  *)
(***************************************************************************)
C7_AtMostOneRemediationAndRetry ==
    /\ [](\A t \in Threads :
            /\ remediations[t] <= 1
            /\ invocations[t] <= 2
            /\ (Finished(t) /\ invocations[t] = 2)
                   => RunResult(vBoxManageOutput[t], err[t])
                          \in RunAndGetOutput(args[t]))
    /\ [][\A t \in Threads :
            (pc[t] = "run2" /\ pc'[t] # "run2")
                => /\ pc'[t] = "clear"
                   /\ remediations'[t] = remediations[t]
                   /\ RunResult(vBoxManageOutput'[t], err'[t])
                          \in RunAndGetOutput(args[t])]_vars

\* the retry failed with the duplicate-disk diagnostic again and the call
\* has returned it
C7_Witness ==
    \E t \in Threads :
        /\ pc[t] = "done" /\ invocations[t] = 2 /\ remediations[t] = 1
        /\ err[t] = ExitError
        /\ Contains(vBoxManageOutput[t], DuplicateDiskDiagnostic)

(***************************************************************************)
(* C8. A cached query (getVMInfo on "showvminfo", getVMState on "vmstate", *)
(* GetVMProperty on the property name, GetVBoxManageVersion on             *)
(* "vboxmanageversion") that finds a present, unexpired entry under its    *)
(* key returns the value derived from that entry: the stored text, or for  *)
(* the version the semantic version the stored string denotes. It makes no *)
(* invocation and does not touch vBoxManageStarted.                        *)
(***************************************************************************)
C8_HitReturnsEntryWithoutInvocation ==
    [][\A t \in Threads :
          LET k == CASE op[t] \in {"getVMInfo", "GetVMInfoByRegexp"} -> "showvminfo"
                     [] op[t] \in {"getVMState", "IsVMRunning"} -> "vmstate"
                     [] op[t] = "GetVBoxManageVersion" -> "vboxmanageversion"
                     [] OTHER -> args[t][4]
          IN  (/\ pc[t] = "get" /\ pc'[t] # "get"
               /\ cache[k].set /\ cache[k].age < cache[k].ttl)
              => /\ pc'[t] = IF op[t] \in {"GetVMInfoByRegexp", "IsVMRunning"}
                             THEN "wrap" ELSE "done"
                 /\ result'[t].err = Nil
                 /\ result'[t].val = IF op[t] = "GetVBoxManageVersion"
                                     THEN SemverMake(cache[k].val)
                                     ELSE cache[k].val
                 /\ invocations'[t] = 0
                 /\ vBoxManageStarted' = vBoxManageStarted
                 /\ cache' = cache]_vars

\* a version query has been answered from an entry one tick old
C8_Witness ==
    \E t \in Threads :
        /\ pc[t] = "done" /\ op[t] = "GetVBoxManageVersion"
        /\ invocations[t] = 0
        /\ cache["vboxmanageversion"].set
        /\ cache["vboxmanageversion"].age = 1
        /\ result[t] = Return([major |-> 6, minor |-> 1, patch |-> 26], Nil)

(***************************************************************************)
(* C9. The cache: Set(k, v, ttl) stores v under k with no time elapsed;    *)
(* time only ages an entry and a bulk reset empties it. A Get(k) before    *)
(* ttl has elapsed since the Set is a hit with v; a Get(k) after ttl has   *)
(* elapsed is a miss, and the caller goes on exactly as for a key never    *)
(* set: it enters runCommand with nothing returned and nothing invoked.    *)
(***************************************************************************)
C9_GetAfterSet ==
    [][/\ \A t \in Threads :
             (pc[t] = "get" /\ pc'[t] # "get")
             => IF cache[Key(t)].set /\ cache[Key(t)].age < cache[Key(t)].ttl
                THEN /\ pc'[t] \in {"done", "wrap"}
                     /\ result'[t] = FromCache(InnerOf(op[t]), cache[Key(t)].val)
                ELSE /\ pc'[t] = "wait"
                     /\ result'[t] = NoReturn
                     /\ invocations'[t] = 0
                     /\ cache' = cache
       /\ \A k \in Keys :
             cache'[k] # cache[k]
             => \/ /\ cache'[k].set /\ cache'[k].age = 0 /\ cache'[k].ttl > 0
                   /\ \E t \in Threads :
                         /\ pc[t] = "ret" /\ pc'[t] \in {"done", "wrap"} /\ k = Key(t)
                         /\ cache'[k].val = IF op[t] = "GetVBoxManageVersion"
                                            THEN VersionString(result'[t].val)
                                            ELSE result'[t].val
                \/ /\ cache[k].set /\ cache[k].age < cache[k].ttl
                   /\ cache'[k] = [cache[k] EXCEPT !.age = @ + 1]
                \/ \A j \in Keys : cache'[j] = NoEntry]_vars

\* a query missed on an entry that was set and has expired
C9_Witness ==
    \E t \in Threads :
        /\ pc[t] = "wait" /\ op[t] = "getVMInfo"
        /\ cache["showvminfo"].set
        /\ cache["showvminfo"].val = TxtRunning
        /\ cache["showvminfo"].age >= cache["showvminfo"].ttl

(***************************************************************************)
(* C10 as stated: IsVMInstalled returns (false, nil) whenever the output   *)
(* of showvminfo contains the diagnostic, (false, err) on any other        *)
(* failure, (true, nil) otherwise. It fails: the diagnostic is looked for  *)
(* only when the command returned an error.                                *)
(***************************************************************************)
C10_NotInstalledWheneverDiagnostic ==
    \A t \in Threads :
        (pc[t] = "done" /\ op[t] = "IsVMInstalled")
        => result[t] =
              IF Contains(vBoxManageOutput[t], vBoxManageOutputNoVMInstalled)
              THEN Return(FALSE, Nil)
              ELSE IF err[t] # Nil THEN Return(FALSE, err[t])
              ELSE Return(TRUE, Nil)

(***************************************************************************)
(* C10. IsVMInstalled returns (true, nil) whenever the serialized          *)
(* showvminfo command returned no error, whatever its output contains;     *)
(* (false, nil) when it returned an error and the returned output contains *)
(* the diagnostic; (false, err) with the returned error unchanged when it  *)
(* returned an error and the output does not contain the diagnostic.       *)
(***************************************************************************)
C10_InstalledUnlessCommandFailed ==
    \A t \in Threads :
        (pc[t] = "done" /\ op[t] = "IsVMInstalled")
        => result[t] =
              IF err[t] = Nil THEN Return(TRUE, Nil)
              ELSE IF Contains(vBoxManageOutput[t], vBoxManageOutputNoVMInstalled)
              THEN Return(FALSE, Nil)
              ELSE Return(FALSE, err[t])

\* the command succeeded with the diagnostic in its output
C10_Witness ==
    \E t \in Threads :
        /\ pc[t] = "done" /\ op[t] = "IsVMInstalled"
        /\ err[t] = Nil
        /\ Contains(vBoxManageOutput[t], vBoxManageOutputNoVMInstalled)
        /\ result[t] = Return(TRUE, Nil)

(***************************************************************************)
(* C11. IsVMInstalled is not cached: a call enters runCommand whatever the *)
(* cache holds, never comes to the cache lookup, returns only after an     *)
(* invocation, and none of its steps changes a cache entry.                *)
(***************************************************************************)
C11_IsVMInstalledNotCached ==
    [][\A t \in Threads :
          (op'[t] = "IsVMInstalled" /\ pc'[t] # pc[t])
          => /\ cache' = cache
             /\ pc'[t] # "get"
             /\ pc[t] \in {"idle", "done"} => (pc'[t] = "wait" /\ invocations'[t] = 0)
             /\ pc'[t] = "done" => invocations'[t] >= 1]_vars

\* IsVMInstalled has invoked and returned while both showvminfo entries
\* were present and unexpired
C11_Witness ==
    \E t \in Threads :
        /\ pc[t] = "done" /\ op[t] = "IsVMInstalled"
        /\ invocations[t] >= 1
        /\ CacheHit(cache, "showvminfo") /\ cache["showvminfo"].val = TxtRunning
        /\ CacheHit(cache, "vmstate")
        /\ result[t] = Return(FALSE, Nil)

(***************************************************************************)
(* C12. IsVMRunning returns (true, nil) exactly when getVMState, from the  *)
(* cache or from an invocation, returned the state "running" and no error; *)
(* it returns (false, err) whenever getVMState returned the error err; it  *)
(* returns (false, nil) when getVMState returned the empty state, as it    *)
(* does when the output of the invocation has the not-installed            *)
(* diagnostic.                                                             *)
(***************************************************************************)
C12_RunningIffStateIsRunning ==
    [][\A t \in Threads :
          (pc[t] = "wrap" /\ op[t] = "IsVMRunning" /\ pc'[t] = "done")
          => /\ (result'[t] = Return(TRUE, Nil))
                   <=> (result[t].err = Nil /\ result[t].val = <<"running">>)
             /\ result'[t].val \in BOOLEAN
             /\ result[t].err # Nil => result'[t] = Return(FALSE, result[t].err)
             /\ result[t].err = Nil => result'[t].err = Nil
             /\ (/\ invocations[t] >= 1
                 /\ Contains(vBoxManageOutput[t], vBoxManageOutputNoVMInstalled))
                => result'[t] = Return(FALSE, Nil)]_vars

\* IsVMRunning has answered true from the cached state, without invocation
C12_Witness ==
    \E t \in Threads :
        /\ pc[t] = "done" /\ op[t] = "IsVMRunning"
        /\ invocations[t] = 0
        /\ cache["vmstate"].val = <<"running">>
        /\ result[t] = Return(TRUE, Nil)

(***************************************************************************)
(* C13. getVMState on a cache miss returns ("", nil) when the output of    *)
(* the invocation contains the not-installed diagnostic; ("", err) on any  *)
(* other failure of the invocation; "" and an error when the invocation    *)
(* succeeded and its output has no VMState="..." field; otherwise the      *)
(* state between the quotes, which is not empty, and no error.             *)
(***************************************************************************)
C13_StateLookupOnMiss ==
    \A t \in Threads :
        (pc[t] = "done" /\ op[t] = "getVMState" /\ invocations[t] >= 1)
        => LET out == vBoxManageOutput[t]
               HasField == \E i \in 1..Len(out), j \in 1..Len(out) :
                              /\ out[i] = "VMState=" /\ out[i + 1] = "\""
                              /\ j >= i + 3 /\ out[j] = "\""
                              /\ \A k \in (i + 2)..(j - 1) : out[k] # "\n"
           IN  IF Contains(out, vBoxManageOutputNoVMInstalled)
               THEN result[t] = Return(<<>>, Nil)
               ELSE IF err[t] # Nil
               THEN result[t] = Return(<<>>, err[t])
               ELSE IF ~HasField
               THEN result[t].val = <<>> /\ result[t].err # Nil
               ELSE /\ result[t] = Return(getVMStateFromOutput(out), Nil)
                    /\ result[t].val # <<>>

\* getVMState has invoked, the command failed with the diagnostic, and ""
\* came back without error
C13_Witness ==
    \E t \in Threads :
        /\ pc[t] = "done" /\ op[t] = "getVMState"
        /\ invocations[t] >= 1
        /\ err[t] # Nil
        /\ vBoxManageOutput[t] = TxtNoVM
        /\ result[t] = Return(<<>>, Nil)

(***************************************************************************)
(* C14. When its invocation fails, GetVMProperty returns "" and no error   *)
(* and calls Set with "" under the property name and the long TTL: unless  *)
(* that Set fails, the entry holds "" with no time elapsed. A later        *)
(* GetVMProperty that finds this entry unexpired returns "" without        *)
(* invocation.                                                             *)
(***************************************************************************)
C14_FailedPropertyIsCachedEmpty ==
    [][\A t \in Threads :
          /\ (pc[t] = "ret" /\ op[t] = "GetVMProperty" /\ pc'[t] = "done"
                /\ err[t] # Nil)
             => /\ result'[t] = Return(<<>>, Nil)
                /\ errCache'[t] = Nil
                   => cache'[args[t][4]] = [set |-> TRUE, val |-> <<>>,
                                            ttl |-> VBoxManageCacheTimeout,
                                            age |-> 0]
                /\ errCache'[t] # Nil => cache' = cache
          /\ (pc[t] = "get" /\ op[t] = "GetVMProperty" /\ pc'[t] # "get"
                /\ cache[args[t][4]].set /\ cache[args[t][4]].val = <<>>
                /\ cache[args[t][4]].age < cache[args[t][4]].ttl)
             => /\ pc'[t] = "done"
                /\ result'[t] = Return(<<>>, Nil)
                /\ invocations'[t] = 0]_vars

\* the invocation of GetVMProperty("mode") has failed, "" was returned and
\* is the fresh entry under "mode"
C14_Witness ==
    \E t \in Threads :
        /\ pc[t] = "done" /\ op[t] = "GetVMProperty" /\ args[t][4] = "mode"
        /\ invocations[t] >= 1 /\ err[t] # Nil
        /\ result[t] = Return(<<>>, Nil)
        /\ cache["mode"] = [set |-> TRUE, val |-> <<>>,
                            ttl |-> VBoxManageCacheTimeout, age |-> 0]

(***************************************************************************)
(* C15 as stated: GetVMProperty on a cache miss returns the whole value    *)
(* that follows "Value:" in the output of a successful invocation, so      *)
(* "Value: exam-mode" gives "exam-mode". It fails: the pattern             *)
(* `Value:\s*(\w+)` stops at the first character that is not a word        *)
(* character and "exam" is returned.                                       *)
(***************************************************************************)
C15_ReturnsWholeValue ==
    \A t \in Threads :
        (/\ pc[t] = "done" /\ op[t] = "GetVMProperty"
         /\ invocations[t] >= 1 /\ err[t] = Nil
         /\ Len(vBoxManageOutput[t]) >= 3
         /\ vBoxManageOutput[t][1] = "Value:" /\ vBoxManageOutput[t][2] = " ")
        => result[t] = Return(SubSeq(vBoxManageOutput[t], 3, Len(vBoxManageOutput[t])),
                              Nil)

(***************************************************************************)
(* C16 as stated: GetVBoxManageVersion on a cache miss returns the version *)
(* whenever the output of a successful invocation begins with a numeric    *)
(* triple, and calls Set with its canonical string; otherwise it returns   *)
(* an error, the zero version, and leaves the cache unchanged. It fails: a *)
(* triple such as 01.1.26 is matched by the pattern and then rejected by   *)
(* semver.Make.                                                            *)
(***************************************************************************)
C16_VersionOfEveryLeadingTriple ==
    [][\A t \in Threads :
          (pc[t] = "ret" /\ op[t] = "GetVBoxManageVersion" /\ pc'[t] = "done")
          => LET out == vBoxManageOutput[t]
                 Triple == /\ err[t] = Nil
                           /\ Len(out) >= 5
                           /\ \A i \in {1, 3, 5} : out[i] \in DigitTokens
                           /\ out[2] = "." /\ out[4] = "."
             IN  IF Triple
                 THEN /\ result'[t] = Return([major |-> ParseUint(out[1]),
                                              minor |-> ParseUint(out[3]),
                                              patch |-> ParseUint(out[5])], Nil)
                      /\ errCache'[t] = Nil
                         => cache'["vboxmanageversion"] =
                               [set |-> TRUE, val |-> VersionString(result'[t].val),
                                ttl |-> VBoxManageCacheTimeout, age |-> 0]
                 ELSE /\ result'[t].err # Nil
                      /\ result'[t].val = ZeroVersion
                      /\ cache' = cache]_vars

(***************************************************************************)
(* C16. GetVBoxManageVersion on a cache miss returns the version when the  *)
(* invocation succeeded and its output begins with a numeric triple none   *)
(* of whose numbers has a superfluous leading 0, and calls Set with its    *)
(* canonical string (stored unless the Set fails). When the invocation     *)
(* failed, or the output has no leading triple, or the triple is not a     *)
(* strict semantic version, it returns an error and the zero version and   *)
(* leaves the cache unchanged.                                             *)
(***************************************************************************)
C16_VersionOfStrictLeadingTriple ==
    [][\A t \in Threads :
          (pc[t] = "ret" /\ op[t] = "GetVBoxManageVersion" /\ pc'[t] = "done")
          => LET out == vBoxManageOutput[t]
                 Strict == /\ err[t] = Nil
                           /\ Len(out) >= 5
                           /\ \A i \in {1, 3, 5} :
                                 out[i] \in DigitTokens \ DOMAIN LeadingZeroTokens
                           /\ out[2] = "." /\ out[4] = "."
             IN  IF Strict
                 THEN /\ result'[t] = Return([major |-> ParseUint(out[1]),
                                              minor |-> ParseUint(out[3]),
                                              patch |-> ParseUint(out[5])], Nil)
                      /\ errCache'[t] = Nil
                         => cache'["vboxmanageversion"] =
                               [set |-> TRUE, val |-> SubSeq(out, 1, 5),
                                ttl |-> VBoxManageCacheTimeout, age |-> 0]
                      /\ errCache'[t] # Nil => cache' = cache
                 ELSE /\ result'[t].err # Nil
                      /\ result'[t].val = ZeroVersion
                      /\ cache' = cache]_vars

\* the output began with 01.1.26: an error and the zero version came back
\* and nothing is cached
C16_Witness ==
    \E t \in Threads :
        /\ pc[t] = "done" /\ op[t] = "GetVBoxManageVersion"
        /\ invocations[t] >= 1 /\ err[t] = Nil
        /\ vBoxManageOutput[t] = TxtVersionLeadingZero
        /\ result[t].err # Nil /\ result[t].val = ZeroVersion
        /\ ~cache["vboxmanageversion"].set

(***************************************************************************)
(* C17. Every GetVMInfoByRegexp call, whatever its pattern, reads the one  *)
(* key "showvminfo". While that entry is present and unexpired the call    *)
(* makes no invocation and returns the first submatch of its pattern in    *)
(* the cached text, "" when the pattern does not match.                    *)
(***************************************************************************)
C17_PatternsShareTheSnapshot ==
    [][\A t \in Threads :
          /\ (/\ pc[t] = "get" /\ op[t] = "GetVMInfoByRegexp" /\ pc'[t] # "get"
              /\ cache["showvminfo"].set
              /\ cache["showvminfo"].age < cache["showvminfo"].ttl)
             => /\ pc'[t] = "wrap"
                /\ result'[t] = Return(cache["showvminfo"].val, Nil)
                /\ invocations'[t] = 0
                /\ cache' = cache
          /\ (/\ pc[t] = "wrap" /\ op[t] = "GetVMInfoByRegexp" /\ pc'[t] # "wrap"
              /\ invocations[t] = 0)
             => /\ pc'[t] = "done"
                /\ invocations'[t] = 0
                /\ result'[t].err = Nil
                /\ result'[t].val =
                      IF vmRegexp[t] = "VMState=\"(.+)\""
                      THEN getVMStateFromOutput(cache["showvminfo"].val)
                      ELSE <<>>]_vars

\* a call with the pattern no output matches has returned "" from the
\* snapshot of a running VM, without invocation
C17_Witness ==
    \E t \in Threads :
        /\ pc[t] = "done" /\ op[t] = "GetVMInfoByRegexp"
        /\ vmRegexp[t] = "nic1=\"(.+)\""
        /\ invocations[t] = 0
        /\ cache["showvminfo"].val = TxtRunning
        /\ result[t] = Return(<<>>, Nil)

(***************************************************************************)
(* C18. When ResetVBoxResponseCache returns no key has an entry and        *)
(* vBoxManageStarted is what it was. A key without entry gets one only by  *)
(* a Set that succeeds, and a query that looks up a key without entry      *)
(* enters runCommand.                                                      *)
(***************************************************************************)
C18_ResetEmptiesEveryKey ==
    [][/\ \A t \in Threads :
             /\ op'[t] = "ResetVBoxResponseCache"
                => /\ \A k \in Keys : ~cache'[k].set /\ cache'[k] = NoEntry
                   /\ pc'[t] = "done"
                   /\ vBoxManageStarted' = vBoxManageStarted
             /\ (pc[t] = "get" /\ pc'[t] # "get" /\ ~cache[Key(t)].set)
                => pc'[t] = "wait" /\ invocations'[t] = 0
             /\ (pc'[t] \in {"done", "wrap"} /\ pc[t] = "get")
                => cache[Key(t)].set
       /\ \A k \in Keys :
             (~cache[k].set /\ cache'[k].set)
             => \E t \in Threads :
                   pc[t] = "ret" /\ Key(t) = k /\ errCache'[t] = Nil]_vars

\* the reset has returned, and no key has an entry
C18_Witness ==
    \E t \in Threads :
        /\ pc[t] = "done" /\ op[t] = "ResetVBoxResponseCache"
        /\ \A k \in Keys : ~CacheHit(cache, k) /\ cache[k] = NoEntry
        /\ vBoxManageStarted = 0

(***************************************************************************)
(* C19 as stated: in a call of RunCommandWithoutLogging the output of an   *)
(* invocation is never written to the log. It fails: when an invocation    *)
(* fails, logError writes its complete output to the log whatever          *)
(* logOutput is.                                                           *)
(***************************************************************************)
C19_NoOutputLoggedWithoutLogging ==
    \A t \in Threads : op[t] = "RunCommandWithoutLogging" => ~outputLogged[t]

(***************************************************************************)
(* C20. When the Set made by getVMInfo, getVMState, GetVMProperty or       *)
(* GetVBoxManageVersion fails, the query returns what it parsed from the   *)
(* output and no error, exactly as when the Set succeeds; the cache is     *)
(* left as it was, so the key is still a miss for the next call.           *)
(***************************************************************************)
C20_FailedSetIsNotReturned ==
    [][\A t \in Threads :
          (pc[t] = "ret" /\ pc'[t] \in {"done", "wrap"} /\ errCache'[t] # Nil)
          => LET out == vBoxManageOutput[t]
             IN  /\ cache' = cache
                 /\ ~(cache'[Key(t)].set /\ cache'[Key(t)].age < cache'[Key(t)].ttl)
                 /\ result'[t].err = Nil
                 /\ err[t] # Nil => result'[t].val = <<>>
                 /\ err[t] = Nil
                    => result'[t].val =
                          CASE op[t] \in {"getVMInfo", "GetVMInfoByRegexp"} -> out
                            [] op[t] \in {"getVMState", "IsVMRunning"} ->
                                  getVMStateFromOutput(out)
                            [] op[t] = "GetVMProperty" ->
                                  PropertyValueFromOutput(out)
                            [] op[t] = "GetVBoxManageVersion" ->
                                  SemverMake(SubSeq(out, 1, 5))]_vars

\* getVMState has parsed "running", its Set has failed, and "running" came
\* back without error while "vmstate" has no entry
C20_Witness ==
    \E t \in Threads :
        /\ pc[t] = "done" /\ op[t] = "getVMState"
        /\ errCache[t] # Nil
        /\ err[t] = Nil
        /\ result[t] = Return(<<"running">>, Nil)
        /\ ~cache["vmstate"].set

(***************************************************************************)
(* C21. The remediation of a runCommand call is one visit to the           *)
(* remediator: the call leaves it towards the retry or the return, never   *)
(* back into the poll loop; it polls no round, starts no invocation of its *)
(* command and leaves vBoxManageStarted alone while it remediates; and a   *)
(* remediation that failed is followed by the return, not by another       *)
(* remediation.                                                            *)
(***************************************************************************)
C21_RemediationBypassesSerializer ==
    [][\A t \in Threads :
          (pc[t] = "fix" /\ pc'[t] # "fix")
          => /\ pc'[t] \in {"run2", "clear"}
             /\ tryCounter'[t] = tryCounter[t]
             /\ invocations'[t] = invocations[t]
             /\ vBoxManageStarted' = vBoxManageStarted
             /\ remediations'[t] = 1
             /\ fixErr'[t] # Nil => pc'[t] = "clear"]_vars

\* a remediation has failed while its caller held the flag, and the call
\* is about to return
C21_Witness ==
    \E t \in Threads :
        /\ pc[t] = "clear"
        /\ fixErr[t] # Nil /\ ~fixed[t]
        /\ remediations[t] = 1 /\ invocations[t] = 1
        /\ tryCounter[t] = 0
        /\ vBoxManageStarted # 0

(***************************************************************************)
(* C22 as stated: whenever vBoxManageStarted reads 0 no invocation started *)
(* by runCommand is in flight. It fails: two callers that both read 0      *)
(* before either wrote are both in flight, and the first to return clears  *)
(* the flag under the other.                                               *)
(***************************************************************************)
C22_IdleFlagMeansNoInvocation ==
    vBoxManageStarted = 0 => \A t \in Threads : pc[t] \notin {"run1", "fix", "run2"}

\* C23: RunCommands runs its commands strictly in list order, each through
\* the logging RunCommand; at the first command that fails it returns that
\* command's error at once and runs none of the later commands; it returns
\* nil only when the loop has gone past the last command, every one having
\* succeeded.
C23_RunCommandsInOrderStopsAtFirstError ==
    [][\A t \in QueryThreads :
          (op[t] = "RunCommands" /\ op'[t] = "RunCommands"
             /\ pc[t] \notin {"idle", "done"})
          => /\ commands'[t] = commands[t]
             /\ curCommand'[t] \in {curCommand[t], curCommand[t] + 1}
             /\ curCommand'[t] # curCommand[t]
                   => pc[t] = "ret" /\ err[t] = Nil /\ pc'[t] = "batch"
             /\ (pc[t] = "batch" /\ pc'[t] = "wait")
                   => /\ curCommand[t] < Len(commands[t])
                      /\ args'[t] = commands[t][curCommand[t] + 1]
                      /\ LogOutput(t)
             /\ (pc[t] = "ret" /\ err[t] # Nil)
                   => /\ pc'[t] = "done"
                      /\ result'[t].err = err[t]
             /\ (pc'[t] = "done" /\ result'[t].err = Nil)
                   => /\ pc[t] = "batch"
                      /\ curCommand[t] = Len(commands[t])]_vars

C23_Witness ==
    \E t \in QueryThreads :
       /\ op[t] = "RunCommands"
       /\ pc[t] = "done"
       /\ Len(commands[t]) = 2
       /\ curCommand[t] = 0
       /\ args[t] = commands[t][1]
       /\ commands[t][2] # commands[t][1]
       /\ result[t].err # Nil
       /\ result[t].err = err[t]
       /\ invocations[t] >= 1

\* C24: a GetVMProperty call never changes what getVMState, getVMInfo or
\* GetVBoxManageVersion return afterwards: the step in which GetVMProperty
\* stores its value leaves the entries under "showvminfo", "vmstate" and
\* "vboxmanageversion" as they were, whatever the property is named.
C24_PropertyLeavesFixedKeys ==
    [][\A t \in QueryThreads :
          (op[t] = "GetVMProperty" /\ pc[t] = "ret" /\ pc'[t] = "done")
          => \A k \in {"showvminfo", "vmstate", "vboxmanageversion"} :
                cache'[k] = cache[k]]_vars

\* C25: the value cached under "vmstate" is never the empty string, the
\* entry being written only by getVMState after a successful invocation
\* that yielded a non-empty state.
C25_CachedStateNeverEmpty ==
    cache["vmstate"].set => cache["vmstate"].val # <<>>

\* C26: when the invocation made by getVMInfo fails, Set is called with ""
\* under "showvminfo" and the long TTL: unless that Set fails the entry
\* holds "" with no time elapsed. A GetVMInfoByRegexp call that finds this
\* entry unexpired makes no invocation, leaves the cache alone and returns
\* "" whatever its pattern, so nothing the VM does in the meantime is seen.
C26_FailedVMInfoIsCachedEmpty ==
    [][\A t \in Threads :
          /\ (/\ pc[t] = "ret" /\ InnerOf(op[t]) = "getVMInfo"
              /\ pc'[t] # "ret" /\ err[t] # Nil)
             => /\ errCache'[t] = Nil
                   => cache'["showvminfo"] = [set |-> TRUE, val |-> <<>>,
                                              ttl |-> VBoxManageCacheTimeout,
                                              age |-> 0]
                /\ errCache'[t] # Nil => cache' = cache
                /\ VBoxManageCacheTimeout > VBoxRunningCacheTimeout
          /\ (/\ pc[t] = "get" /\ op[t] = "GetVMInfoByRegexp" /\ pc'[t] # "get"
              /\ cache["showvminfo"].set /\ cache["showvminfo"].val = <<>>
              /\ cache["showvminfo"].age < cache["showvminfo"].ttl)
             => /\ pc'[t] = "wrap"
                /\ result'[t] = Return(<<>>, Nil)
                /\ invocations'[t] = 0
                /\ cache' = cache
          /\ (/\ pc[t] = "wrap" /\ op[t] = "GetVMInfoByRegexp" /\ pc'[t] # "wrap"
              /\ result[t] = Return(<<>>, Nil))
             => /\ pc'[t] = "done"
                /\ result'[t] = Return(<<>>, Nil)
                /\ invocations'[t] = invocations[t]
                /\ cache' = cache]_vars

\* a call has returned "" from the aged entry a failed invocation left,
\* without invocation
C26_Witness ==
    \E t \in Threads :
        /\ pc[t] = "done" /\ op[t] = "GetVMInfoByRegexp"
        /\ vmRegexp[t] = "VMState=\"(.+)\""
        /\ invocations[t] = 0
        /\ cache["showvminfo"].set /\ cache["showvminfo"].val = <<>>
        /\ cache["showvminfo"].age = 1
        /\ cache["showvminfo"].ttl = VBoxManageCacheTimeout
        /\ result[t] = Return(<<>>, Nil)

\* C28: version round trip. The string the populating call of
\* GetVBoxManageVersion stores parses back to exactly the version that call
\* returned; the string of the entry is changed by nothing but such a call
\* or a reset; a call served from the entry makes no invocation and returns
\* the parse of the string with a nil error.
C28_VersionRoundTrip ==
    [][\A t \in Threads :
          /\ (/\ pc[t] = "ret" /\ op[t] = "GetVBoxManageVersion"
              /\ pc'[t] = "done" /\ result'[t].err = Nil /\ errCache'[t] = Nil)
             => /\ cache'["vboxmanageversion"].set
                /\ cache'["vboxmanageversion"].age = 0
                /\ VersionFromCache(cache'["vboxmanageversion"].val)
                      = Return(result'[t].val, Nil)
                /\ \A ma, mi, pa \in {0, 6, MaxVersionPart} :
                      LET v == [major |-> ma, minor |-> mi, patch |-> pa]
                      IN  VersionFromCache(VersionString(v)) = Return(v, Nil)
          /\ (\/ cache'["vboxmanageversion"].set # cache["vboxmanageversion"].set
              \/ cache'["vboxmanageversion"].val # cache["vboxmanageversion"].val)
             => \/ cache'["vboxmanageversion"] = NoEntry
                \/ \E u \in Threads :
                      /\ pc[u] = "ret" /\ op[u] = "GetVBoxManageVersion"
                      /\ pc'[u] = "done" /\ result'[u].err = Nil
                      /\ errCache'[u] = Nil
          /\ (/\ pc[t] = "get" /\ op[t] = "GetVBoxManageVersion"
              /\ pc'[t] # "get" /\ CacheHit(cache, "vboxmanageversion"))
             => /\ pc'[t] = "done"
                /\ invocations'[t] = 0
                /\ result'[t] = VersionFromCache(cache["vboxmanageversion"].val)
                /\ result'[t].err = Nil
                /\ cache' = cache]_vars

\* a call has been served 6.1.26 from the aged entry, without invocation
C28_Witness ==
    \E t \in Threads :
        /\ pc[t] = "done" /\ op[t] = "GetVBoxManageVersion"
        /\ invocations[t] = 0
        /\ cache["vboxmanageversion"].set
        /\ cache["vboxmanageversion"].age = 1
        /\ cache["vboxmanageversion"].val = <<"6", ".", "1", ".", "26">>
        /\ result[t] = Return([major |-> 6, minor |-> 1, patch |-> 26], Nil)

\* C29: the state lookup and the snapshot are independent entries. A step
\* of getVMState (or of IsVMRunning through it) or of IsVMInstalled leaves
\* the "showvminfo" entry as it was; the lookup of getVMState is decided by
\* the "vmstate" entry alone and IsVMInstalled looks nothing up. A step of
\* getVMInfo (or of GetVMInfoByRegexp through it) leaves the "vmstate" entry
\* as it was and its lookup is decided by the "showvminfo" entry alone. All
\* three run the same command.
C29_StateAndSnapshotAreIndependent ==
    [][\A t \in Threads :
          /\ (/\ InnerOf(op[t]) \in {"getVMState", "IsVMInstalled"}
              /\ pc[t] \notin {"idle", "done"} /\ pc'[t] # pc[t])
             => /\ cache'["showvminfo"] = cache["showvminfo"]
                /\ pc[t] = "get"
                   => /\ InnerOf(op[t]) = "getVMState"
                      /\ IF CacheHit(cache, "vmstate")
                         THEN /\ pc'[t] = ReturnTo(t)
                              /\ result'[t] = Return(cache["vmstate"].val, Nil)
                              /\ invocations'[t] = 0
                         ELSE /\ pc'[t] = "wait"
                              /\ args'[t] = CmdShowVMInfo
                /\ pc'[t] = "wait" => args'[t] = CmdShowVMInfo
          /\ (/\ InnerOf(op[t]) = "getVMInfo"
              /\ pc[t] \notin {"idle", "done"} /\ pc'[t] # pc[t])
             => /\ cache'["vmstate"] = cache["vmstate"]
                /\ pc[t] = "get"
                   => IF CacheHit(cache, "showvminfo")
                      THEN /\ pc'[t] = ReturnTo(t)
                           /\ result'[t] = Return(cache["showvminfo"].val, Nil)
                           /\ invocations'[t] = 0
                      ELSE /\ pc'[t] = "wait"
                           /\ args'[t] = CmdShowVMInfo
                /\ pc'[t] = "wait" => args'[t] = CmdShowVMInfo]_vars

\* getVMState has missed and invoked although the snapshot of a running VM
\* is cached, and has found the VM powered off; the snapshot is untouched
C29_Witness ==
    \E t \in Threads :
        /\ pc[t] = "done" /\ op[t] = "getVMState"
        /\ invocations[t] >= 1
        /\ result[t].err = Nil /\ result[t].val = <<"poweroff">>
        /\ CacheHit(cache, "showvminfo")
        /\ cache["showvminfo"].val = TxtRunning
        /\ cache["vmstate"].val = <<"poweroff">>

\* C27: for concurrent calls of the same cached query on the same key the
\* hypervisor CLI is invoked at most once while the key has no entry: no two
\* goroutines are both past a miss on one key with an invocation made.
C27_OneInvocationPerKey ==
    \A t, u \in Threads :
        (/\ t # u
         /\ op[t] = "getVMInfo" /\ op[u] = "getVMInfo"
         /\ Key(t) = Key(u)
         /\ pc[t] \in {"fix", "run2", "clear", "ret"}
         /\ pc[u] \in {"fix", "run2", "clear", "ret"}
         /\ ~cache[Key(t)].set)
        => ~(invocations[t] >= 1 /\ invocations[u] >= 1)

====
